---- MODULE Spec2Model ----
(***************************************************************************)
(* Model of get_presentation_timings.py: parse_log_file turns the rows of  *)
(* a Presentation log into a table of trial events (trial_num, trial_type, *)
(* onset, duration) relative to a start marker.                            *)
(*                                                                         *)
(* A name is a sequence of one-character strings, so that str.upper() is   *)
(* computed character by character.  The float columns onset and duration  *)
(* are exact rationals [n, d] in lowest terms (d > 0): the arithmetic of   *)
(* the code without the rounding of IEEE doubles.  A DataFrame is the      *)
(* sequence of its rows; every row carries its index label, which pandas   *)
(* keeps through boolean filtering.                                        *)
(***************************************************************************)
EXTENDS Integers, Sequences, FiniteSets, TLC

VARIABLES data, start_trial_type, end_trial_type, trial_types,
          pc, status, result, missing, missing_types

vars == <<data, start_trial_type, end_trial_type, trial_types,
          pc, status, result, missing, missing_types>>

(***************************************************************************)
(* Bounds of the model and the program's one numeric constant.             *)
(***************************************************************************)
MaxRows == 4
MaxCaseRows == 3
TimeScale == 10000

(***************************************************************************)
(* Names and str.upper().                                                  *)
(***************************************************************************)
LowerChars == <<"a", "d", "e", "i", "n", "p", "s", "t", "v">>
UpperChars == <<"A", "D", "E", "I", "N", "P", "S", "T", "V">>

\* the letters' images under upper() and lower(); any other character is its own image
ToUpper == [c \in {LowerChars[i] : i \in DOMAIN LowerChars} |->
              UpperChars[CHOOSE i \in DOMAIN LowerChars : LowerChars[i] = c]]
ToLower == [c \in {UpperChars[i] : i \in DOMAIN UpperChars} |->
              LowerChars[CHOOSE i \in DOMAIN UpperChars : UpperChars[i] = c]]

UpperChar(c) == IF c \in DOMAIN ToUpper THEN ToUpper[c] ELSE c

LowerChar(c) == IF c \in DOMAIN ToLower THEN ToLower[c] ELSE c

UpperIdentity(s) == s

Upper(s) == [i \in DOMAIN s |-> UpperChar(s[i])]

Lower(s) == [i \in DOMAIN s |-> LowerChar(s[i])]

Capitalize(s) == [i \in DOMAIN s |-> IF i = 1 THEN UpperChar(s[i]) ELSE LowerChar(s[i])]

(***************************************************************************)
(* Exact rational arithmetic for the float columns.                        *)
(***************************************************************************)
Abs(x) == IF x < 0 THEN -x ELSE x

RECURSIVE GCD(_, _)
GCD(a, b) == IF b = 0 THEN a ELSE GCD(b, a % b)

Norm(n, d) ==
  LET g == GCD(Abs(n), d)
  IN  [n |-> n \div g, d |-> d \div g]

IntF(i) == [n |-> i, d |-> 1]

FracSub(x, y) == Norm(x.n * y.d - y.n * x.d, x.d * y.d)

FracAbs(x) == [n |-> Abs(x.n), d |-> x.d]

FracMulInt(x, k) == Norm(x.n * k, x.d)

FracDivInt(x, k) == Norm(x.n, x.d * k)

FracLeq(x, y) == x.n * y.d <= y.n * x.d

(***************************************************************************)
(* The steps of parse_log_file.                                            *)
(***************************************************************************)
\* data['name(str)'].str.upper()
UpperNames(d) == [i \in DOMAIN d |-> [d[i] EXCEPT !.name = Upper(d[i].name)]]

\* set(data['name(str)'].values), after upper-casing
NameValues(d) == {Upper(d[i].name) : i \in DOMAIN d}

MissingMarkersBoth(d, s, e) == <<Upper(s), Upper(e)>>

\* [trial for trial in [start, end] if trial not in data['name(str)'].values]
MissingMarkers(d, s, e) ==
  SelectSeq(<<Upper(s), Upper(e)>>, LAMBDA m : m \notin NameValues(d))

\* the condition of the raise
MarkerMissing(d, s, e) ==
  Upper(s) \notin NameValues(d) \/ Upper(e) \notin NameValues(d)

\* tuple(t.upper() for t in trial_types), as the set the code makes of it
UpperTypes(T) == {Upper(t) : t \in T}

MissingTypesSilent(d, T) == {}

\* set(trial_types) - set(data['name(str)'].values)
MissingTypes(d, T) == UpperTypes(T) \ NameValues(d)

\* set(trial_types).union({start_trial_type, end_trial_type})
RelevantTrials(s, e, T) == UpperTypes(T) \cup {Upper(s), Upper(e)}

\* data[data['name(str)'].isin(relevant_trials)]
FilterRelevant(d, s, e, T) ==
  SelectSeq(UpperNames(d), LAMBDA r : r.name \in RelevantTrials(s, e, T))

LastTime(d, m) ==
  LET u == UpperNames(d)
      k == CHOOSE i \in DOMAIN u :
             /\ u[i].name = Upper(m)
             /\ \A j \in DOMAIN u : j > i => u[j].name # Upper(m)
  IN  u[k].Time

\* data.loc[data['name(str)'] == marker, 'Time'].iloc[0]
FirstTime(d, m) ==
  LET u == UpperNames(d)
      k == CHOOSE i \in DOMAIN u :
             /\ u[i].name = Upper(m)
             /\ \A j \in DOMAIN u : j < i => u[j].name # Upper(m)
  IN  u[k].Time

OnsetReversed(time, start_time) == FracDivInt(IntF(start_time - time), TimeScale)

\* (filtered_data['onset'] - start_time) / 10000
OnsetOf(time, start_time) == FracDivInt(IntF(time - start_time), TimeScale)

\* rename of the columns and the adjusted onset
WithOnset(f, start_time) ==
  [i \in DOMAIN f |->
     [index |-> f[i].index, trial_num |-> f[i].Trial, trial_type |-> f[i].name,
      onset |-> OnsetOf(f[i].Time, start_time)]]

DurationSigned(o, i, end_time) ==
  IF i < Len(o)
  THEN FracSub(o[i].onset, o[i + 1].onset)
  ELSE FracDivInt(FracSub(IntF(end_time), FracMulInt(o[i].onset, TimeScale)), TimeScale)

\* filtered_data['onset'].diff(-1).abs(), then the last row's own formula
DurationAt(o, i, end_time) ==
  IF i < Len(o)
  THEN FracAbs(FracSub(o[i].onset, o[i + 1].onset))
  ELSE FracDivInt(FracSub(IntF(end_time), FracMulInt(o[i].onset, TimeScale)), TimeScale)

WithDuration(o, end_time) ==
  [i \in DOMAIN o |->
     [index |-> o[i].index, trial_num |-> o[i].trial_num,
      trial_type |-> o[i].trial_type, onset |-> o[i].onset,
      duration |-> DurationAt(o, i, end_time)]]

KeepAllButStart(t, s, e) == t # Upper(s)

\* (trial_type != start_trial_type) & (trial_type != end_trial_type)
NotMarker(t, s, e) == t # Upper(s) /\ t # Upper(e)

DropMarkers(w, s, e) == SelectSeq(w, LAMBDA r : NotMarker(r.trial_type, s, e))

ParseTableStrict(d, s, e, T) ==
  IF MissingTypes(d, T) # {}
  THEN <<>>
  ELSE DropMarkers(
         WithDuration(WithOnset(FilterRelevant(d, s, e, T), FirstTime(d, s)), FirstTime(d, e)),
         s, e)

\* the table parse_log_file returns when it does not raise
ParseTable(d, s, e, T) ==
  DropMarkers(
    WithDuration(WithOnset(FilterRelevant(d, s, e, T), FirstTime(d, s)), FirstTime(d, e)),
    s, e)

(***************************************************************************)
(* Inputs.                                                                 *)
(***************************************************************************)
T0 == <<"t", "0">>
END == <<"e", "n", "d">>
VAS == <<"v", "a", "s">>
PAIN == <<"p", "a", "i", "n">>

\* the spellings found in the log, and those of the parameters
LogNames == {T0, Capitalize(END), Lower(VAS)}
Times == {10000, 12500, 30000}
\* requests: any of a type of the log and a type not in it, or the type and the end marker
TypeSets == (SUBSET {Capitalize(VAS), Lower(PAIN)}) \cup {{Capitalize(VAS), Upper(END)}}

\* the Trial column: two events per trial
TrialAt(i) == (i + 1) \div 2

MakeData(names, times) ==
  [i \in DOMAIN names |->
     [index |-> i - 1, Trial |-> TrialAt(i), name |-> names[i], Time |-> times[i]]]

Init ==
  /\ \E n \in 0..MaxRows :
       \E names \in [1..n -> LogNames], times \in [1..n -> Times] :
         data = MakeData(names, times)
  /\ start_trial_type = Upper(T0)
  /\ end_trial_type = END
  /\ trial_types \in TypeSets
  /\ pc = "call"
  /\ status = "none"
  /\ result = <<>>
  /\ missing = <<>>
  /\ missing_types = {}

(***************************************************************************)
(* parse_log_file, one action per way it ends.                             *)
(***************************************************************************)
ParseRaise ==
  /\ pc = "call"
  /\ MarkerMissing(data, start_trial_type, end_trial_type)
  /\ missing' = MissingMarkers(data, start_trial_type, end_trial_type)
  /\ status' = "raised"
  /\ result' = <<>>
  /\ missing_types' = {}
  /\ pc' = "done"
  /\ UNCHANGED <<data, start_trial_type, end_trial_type, trial_types>>

ParseReturn ==
  /\ pc = "call"
  /\ ~MarkerMissing(data, start_trial_type, end_trial_type)
  /\ missing_types' = MissingTypes(data, trial_types)
  /\ result' = ParseTable(data, start_trial_type, end_trial_type, trial_types)
  /\ status' = "returned"
  /\ missing' = <<>>
  /\ pc' = "done"
  /\ UNCHANGED <<data, start_trial_type, end_trial_type, trial_types>>

Next == ParseRaise \/ ParseReturn

\* the shape of the state: the loaded log, the parameters, and how the call ended
TypeOK ==
  /\ \A i \in DOMAIN data :
       /\ data[i].index = i - 1
       /\ data[i].Trial \in Nat
       /\ data[i].Time \in Nat
  /\ pc \in {"call", "done"}
  /\ status \in {"none", "raised", "returned"}
  /\ pc = "done" => status # "none"
  /\ status # "returned" => result = <<>>
  /\ status # "raised" => missing = <<>>
  /\ \A i \in DOMAIN result :
       /\ result[i].onset.d > 0
       /\ result[i].duration.d > 0

Spec == Init /\ [][Next]_vars

(***************************************************************************)
(* A second call on the same log with one name spelled in another letter   *)
(* case: a row's name, a marker parameter or a requested type.             *)
(***************************************************************************)
Spellings(s) == {Lower(s), Capitalize(s), Upper(s)}

CaseTimes(n) == [i \in 1..n |-> 10000 + 2500 * i * i]

InitCase ==
  /\ \E n \in 1..MaxCaseRows :
       \E names \in [1..n -> {T0, END, VAS}] :
         data = MakeData(names, CaseTimes(n))
  /\ start_trial_type = T0
  /\ end_trial_type = END
  /\ trial_types = {VAS}
  /\ pc = "call"
  /\ status = "none"
  /\ result = <<>>
  /\ missing = <<>>
  /\ missing_types = {}

RecaseRow ==
  /\ pc = "done"
  /\ \E i \in DOMAIN data :
       \E v \in Spellings(data[i].name) \ {data[i].name} :
         data' = [data EXCEPT ![i].name = v]
  /\ pc' = "call"
  /\ UNCHANGED <<start_trial_type, end_trial_type, trial_types,
                 status, result, missing, missing_types>>

RecaseStart ==
  /\ pc = "done"
  /\ start_trial_type' \in Spellings(start_trial_type) \ {start_trial_type}
  /\ pc' = "call"
  /\ UNCHANGED <<data, end_trial_type, trial_types,
                 status, result, missing, missing_types>>

RecaseEnd ==
  /\ pc = "done"
  /\ end_trial_type' \in Spellings(end_trial_type) \ {end_trial_type}
  /\ pc' = "call"
  /\ UNCHANGED <<data, start_trial_type, trial_types,
                 status, result, missing, missing_types>>

RecaseType ==
  /\ pc = "done"
  /\ \E t \in trial_types :
       \E v \in Spellings(t) \ {t} :
         trial_types' = (trial_types \ {t}) \cup {v}
  /\ pc' = "call"
  /\ UNCHANGED <<data, start_trial_type, end_trial_type,
                 status, result, missing, missing_types>>

NextCase ==
  \/ ParseRaise
  \/ ParseReturn
  \/ RecaseRow
  \/ RecaseStart
  \/ RecaseEnd
  \/ RecaseType

SpecCase == InitCase /\ [][NextCase]_vars

(***************************************************************************)
(* Vocabulary of the properties, in terms of the raw log.                  *)
(***************************************************************************)
Returned == pc = "done" /\ status = "returned"
Raised == pc = "done" /\ status = "raised"

Min(S) == CHOOSE x \in S : \A y \in S : x <= y
Max(S) == CHOOSE x \in S : \A y \in S : x >= y

StartMarker == Upper(start_trial_type)
EndMarker == Upper(end_trial_type)
Requested == {Upper(t) : t \in trial_types}

\* rows are named by their index label k = 0, 1, ...
Labels == {i - 1 : i \in DOMAIN data}
NameAt(k) == Upper(data[k + 1].name)
TimeAt(k) == data[k + 1].Time
StartRows == {k \in Labels : NameAt(k) = StartMarker}
EndRows == {k \in Labels : NameAt(k) = EndMarker}
BothMarkers == StartRows # {} /\ EndRows # {}
start_time_raw == TimeAt(Min(StartRows))
end_time_raw == TimeAt(Min(EndRows))

Retained == {k \in Labels : NameAt(k) \in Requested \cup {StartMarker, EndMarker}}
Reported == {k \in Labels : NameAt(k) \in Requested \ {StartMarker, EndMarker}}
NextRetained(k) == Min({j \in Retained : j > k})
ResultLabels == {result[i].index : i \in DOMAIN result}

Chronological == \A i, j \in DOMAIN data : i < j => data[i].Time <= data[j].Time

Seconds(ticks) == Norm(ticks, TimeScale)
RawOnset(k) == Seconds(TimeAt(k) - start_time_raw)

ExpectedDuration(k) ==
  IF k = Max(Retained)
  THEN FracDivInt(FracSub(IntF(end_time_raw), FracMulInt(RawOnset(k), TimeScale)), TimeScale)
  ELSE FracAbs(FracSub(RawOnset(k), RawOnset(NextRetained(k))))

AbsentTypes == {t \in trial_types : Upper(t) \notin {NameAt(k) : k \in Labels}}

(***************************************************************************)
(* Properties.                                                             *)
(***************************************************************************)
\* C1: when both markers are in the log, no row of the returned table has
\* the start marker or the end marker as its trial_type, whatever types
\* were requested and however often a marker occurs.
C1_MarkersExcluded ==
  (pc = "done" /\ BothMarkers) =>
    /\ status = "returned"
    /\ \A i \in DOMAIN result :
         result[i].trial_type # StartMarker /\ result[i].trial_type # EndMarker

C1_Witness ==
  /\ Returned
  /\ result # <<>>
  /\ EndMarker \in Requested
  /\ Cardinality(EndRows) >= 2

\* C2: when the start or the end marker is not in the log, the call ends
\* in the ValueError, returns no table, and the error lists exactly the
\* absent markers, whichever requested types the log holds.
C2_MissingMarkerRaises ==
  (pc = "done" /\ ~BothMarkers) =>
    /\ status = "raised"
    /\ result = <<>>
    /\ {missing[i] : i \in DOMAIN missing} =
         {m \in {StartMarker, EndMarker} : \A k \in Labels : NameAt(k) # m}
    /\ missing # <<>>

C2_Witness ==
  /\ Raised
  /\ StartRows # {}
  /\ EndRows = {}
  /\ Reported # {}
  /\ missing = <<EndMarker>>

C4_OnsetFromFirstStart ==
  Returned =>
    \A i \in DOMAIN result :
      /\ result[i].index \in Labels
      /\ result[i].onset = RawOnset(result[i].index)
      /\ result[i].trial_num = data[result[i].index + 1].Trial

C4_Witness ==
  /\ Returned
  /\ \E a, b \in StartRows : TimeAt(a) # TimeAt(b)
  /\ \E i \in DOMAIN result :
       /\ result[i].index < Min(StartRows)
       /\ result[i].onset.n < 0
       /\ result[i].onset.d > 1

\* C5 (as stated): with both markers present and a requested type absent,
\* the call warns, does not fail, and returns a non-empty table.
C5_AsStated ==
  (pc = "done" /\ BothMarkers /\ AbsentTypes # {}) =>
    /\ status = "returned"
    /\ missing_types # {}
    /\ result # <<>>

\* C5 (amended): with both markers present and a requested type absent,
\* the call warns of exactly the absent types, does not fail, and returns
\* exactly the rows of the requested non-marker types that are present,
\* in log order, with onset and duration as computed over the retained
\* rows; the table is non-empty iff such a row exists.
C5_WarnsAndReturnsPresent ==
  (pc = "done" /\ BothMarkers /\ AbsentTypes # {}) =>
    /\ status = "returned"
    /\ missing_types = {Upper(t) : t \in AbsentTypes}
    /\ ResultLabels = Reported
    /\ Len(result) = Cardinality(Reported)
    /\ \A i \in DOMAIN result :
         /\ result[i].trial_type = NameAt(result[i].index)
         /\ result[i].onset = RawOnset(result[i].index)
         /\ result[i].duration = ExpectedDuration(result[i].index)
    /\ (result # <<>> <=> Reported # {})

C5_Witness ==
  /\ Returned
  /\ AbsentTypes # {}
  /\ AbsentTypes # trial_types
  /\ result # <<>>

\* C6: a call whose names differ from the previous call's only in letter
\* case has the same outcome (both raise, naming the same markers, or both
\* return), and the same table, whose trial_type values are upper case.
C6_CaseInsensitive ==
  [][(pc = "call" /\ status # "none") =>
       /\ status' = status
       /\ result' = result
       /\ missing' = missing
       /\ \A i \in DOMAIN result' : result'[i].trial_type = Upper(result'[i].trial_type)]_vars

C6_Witness ==
  /\ Returned
  /\ result # <<>>
  /\ start_trial_type # T0
  /\ end_trial_type = Capitalize(END)
  /\ trial_types = {Upper(VAS)}
  /\ \E i \in DOMAIN data : data[i].name = Capitalize(VAS)

\* C7: the output rows are input rows in their original order, and when
\* the log is in non-decreasing order of Time the onsets of the output,
\* read in row order, are non-decreasing.
C7_OrderPreserved ==
  Returned =>
    /\ \A i, j \in DOMAIN result : i < j => result[i].index < result[j].index
    /\ \A i \in DOMAIN result :
         /\ result[i].index \in Labels
         /\ result[i].trial_num = data[result[i].index + 1].Trial
         /\ result[i].trial_type = NameAt(result[i].index)
    /\ Chronological =>
         \A i, j \in DOMAIN result :
           i < j => FracLeq(result[i].onset, result[j].onset)

C7_Witness ==
  /\ Returned
  /\ Chronological
  /\ Len(result) >= 2
  /\ result[1].onset # result[2].onset
  /\ result[1].index > 0

\* C8: requested types that are absent from the log do not change the
\* result: the call returns, and its table is the table of the call with
\* the absent types removed from the request.
C8_AbsentTypesIrrelevant ==
  (pc = "done" /\ BothMarkers) =>
    /\ status = "returned"
    /\ result = ParseTable(data, start_trial_type, end_trial_type,
                           trial_types \ AbsentTypes)

C8_Witness ==
  /\ Returned
  /\ AbsentTypes # {}
  /\ Len(result) >= 2

\* C9, on the logs the transform assumes (rows in non-decreasing order of
\* Time): with both markers and a non-empty output, the last output row's
\* duration is the time from that event to the end marker,
\* (end_time_raw - its raw time) / 10000, and every other output row's
\* duration is the time to the next retained event.
C9_LastDurationToEnd ==
  (Returned /\ Chronological /\ result # <<>>) =>
    \A i \in DOMAIN result :
      IF i = Len(result)
      THEN result[i].duration = Seconds(end_time_raw - TimeAt(result[i].index))
      ELSE result[i].duration =
             Seconds(TimeAt(NextRetained(result[i].index)) - TimeAt(result[i].index))

\* C10, on the logs the transform assumes (rows in non-decreasing order of
\* Time): with both markers, every output row lies between the markers,
\* 0 <= onset <= (end_time_raw - start_time_raw) / 10000.
C10_BoundedByMarkers ==
  (Returned /\ Chronological) =>
    \A i \in DOMAIN result :
      /\ FracLeq(IntF(0), result[i].onset)
      /\ FracLeq(result[i].onset, Seconds(end_time_raw - start_time_raw))

====
